---- MODULE Spec2Model ----
(***************************************************************************)
(* Model of video_transcriber.py: process_video_to_text and the functions  *)
(* it calls (extract_audio_from_video, transcribe_audio_with_whisper,      *)
(* split_and_transcribe_audio), together with the part of the filesystem   *)
(* they touch: <name>_temp_audio.mp3, <name>.txt, <name>_audio_chunks/ and *)
(* the chunk_<i>.wav files inside it.                                      *)
(*                                                                         *)
(* The external libraries (moviepy, pydub, whisper) and the os calls are   *)
(* modelled by their outcomes: each either succeeds or raises, and the     *)
(* recognised text of a piece of audio is an input drawn from Texts.       *)
(***************************************************************************)
EXTENDS Integers, Sequences, FiniteSets, TLC

\* Largest number of chunks split_on_silence yields in the model.
MaxChunks == 2

\* Texts whisper may recognise in one piece of audio ("" = no speech).
Texts == {"", "a", "b"}

\* Python's None / a value, as a sequence of length 0 / 1.
None == <<>>
Some(v) == <<v>>

\* An absent file / a file with content c.
NoFile == <<>>
File(c) == <<c>>

\* Content of a <name>.txt left by an earlier run.
OldTranscript == "old"

\* The sequences of chunks split_on_silence may yield; a chunk is
\* identified with the text the model recognises in it.
ChunkSeqs == UNION { [1..n -> Texts] : n \in 0..MaxChunks }

\* Indices chunk files left in the chunk directory by an earlier run may have.
StaleIndices == 0..MaxChunks

VARIABLES
    pc,                \* position in process_video_to_text / split_and_transcribe_audio
    ret,               \* "running", "True", "False", or "raised" (exception propagated)
    video_exists,      \* os.path.exists(video_path)
    use_segmentation,  \* the mode flag
    audio_file,        \* <name>_temp_audio.mp3 exists
    text_output_file,  \* <name>.txt: NoFile or File(content)
    chunks_dir,        \* <name>_audio_chunks exists
    chunk_files,       \* indices i such that chunk_<i>.wav exists in the directory
    chunks,            \* result of split_on_silence
    i,                 \* loop index of the for loop over chunks
    full_text,         \* list of per-chunk transcripts
    transcribed_text,  \* None or Some(text)
    fs0,               \* history: the filesystem when the function was called
    calls,             \* history: functions invoked so far
    exported,          \* history: chunk indices whose export was attempted, in order
    transcribed,       \* history: chunk indices whose transcription was attempted, in order
    del_failed,        \* history: chunk indices whose os.remove raised
    seg_error,         \* history: which step of split_and_transcribe_audio raised
    extracted,         \* history: extract_audio_from_video returned True
    written,           \* history: the write of <name>.txt completed
    cleanup_attempts,  \* history: removals attempted by the cleanup step
    cleanup_error,     \* history: the cleanup step caught an exception
    steps              \* history: the steps of process_video_to_text entered, in order

vars == <<pc, ret, video_exists, use_segmentation, audio_file, text_output_file,
          chunks_dir, chunk_files, chunks, i, full_text, transcribed_text,
          fs0, calls, exported, transcribed, del_failed, seg_error, extracted,
          written, cleanup_attempts, cleanup_error, steps>>

fsvars == <<audio_file, text_output_file, chunks_dir, chunk_files>>
segvars == <<chunks, i, full_text, exported, transcribed, del_failed, seg_error>>
cleanvars == <<cleanup_attempts, cleanup_error>>

\* The filesystem as a record, for comparison with fs0.
FileSystem ==
    [audio |-> audio_file, txt |-> text_output_file,
     dir |-> chunks_dir, files |-> chunk_files]

Init ==
    /\ pc = "validate"
    /\ ret = "running"
    /\ video_exists \in BOOLEAN
    /\ use_segmentation \in BOOLEAN
    /\ audio_file \in BOOLEAN
    /\ text_output_file \in {NoFile, File(OldTranscript)}
    /\ chunks_dir \in BOOLEAN
    /\ chunk_files \in (IF chunks_dir THEN SUBSET StaleIndices ELSE {{}})
    /\ chunks = <<>>
    /\ i = 0
    /\ full_text = <<>>
    /\ transcribed_text = None
    /\ fs0 = FileSystem
    /\ calls = {}
    /\ exported = <<>>
    /\ transcribed = <<>>
    /\ del_failed = {}
    /\ seg_error = "none"
    /\ extracted = FALSE
    /\ written = FALSE
    /\ cleanup_attempts = {}
    /\ cleanup_error = FALSE
    /\ steps = <<>>

\* return False / return True of process_video_to_text.
Return(v) ==
    /\ pc' = "done"
    /\ ret' = v

\* ValidateInput without the existence test of line 97.
ValidateInputNoCheck ==
    /\ pc = "validate"
    /\ steps' = Append(steps, "validate")
    /\ pc' = "extract"
    /\ ret' = ret
    /\ UNCHANGED <<video_exists, use_segmentation, fsvars, segvars,
                   transcribed_text, fs0, calls, extracted, written, cleanvars>>

\* line 97-99: the video path must exist.
ValidateInput ==
    /\ pc = "validate"
    /\ steps' = Append(steps, "validate")
    /\ IF ~video_exists
         THEN Return("False")
         ELSE pc' = "extract" /\ ret' = ret
    /\ UNCHANGED <<video_exists, use_segmentation, fsvars, segvars,
                   transcribed_text, fs0, calls, extracted, written, cleanvars>>

\* line 110-112 with extract_audio_from_video (7-18): on success the audio
\* file exists; on an exception the file may or may not have been created.
ExtractAudio ==
    /\ pc = "extract"
    /\ steps' = Append(steps, "extract")
    /\ calls' = calls \cup {"extract_audio_from_video"}
    /\ \/ /\ audio_file' = TRUE
          /\ extracted' = TRUE
          /\ pc' = "transcribe"
          /\ ret' = ret
       \/ /\ audio_file' \in {audio_file, TRUE}
          /\ extracted' = FALSE
          /\ Return("False")
    /\ UNCHANGED <<video_exists, use_segmentation, text_output_file, chunks_dir,
                   chunk_files, segvars, transcribed_text, fs0, written, cleanvars>>

\* The handler of lines 75-77: any exception inside the try block of
\* split_and_transcribe_audio makes it return None.
SegRaise(step) ==
    /\ seg_error' = step
    /\ transcribed_text' = None
    /\ pc' = "save"

\* line 128 with transcribe_audio_with_whisper (20-34): the text of the whole
\* audio, or None when load_model or transcribe raises.
DirectTranscribe ==
    /\ pc = "transcribe"
    /\ ~use_segmentation
    /\ steps' = Append(steps, "transcribe")
    /\ calls' = calls \cup {"transcribe_audio_with_whisper"}
    /\ \/ \E text \in Texts : transcribed_text' = Some(text)
       \/ transcribed_text' = None
    /\ pc' = "save"
    /\ UNCHANGED <<ret, video_exists, use_segmentation, fsvars, segvars, fs0,
                   extracted, written, cleanvars>>

\* line 119 entering split_and_transcribe_audio, lines 41-42: the chunk
\* directory is created when absent. os.makedirs is outside the try block,
\* so an exception it raises propagates out of both functions.
MakeChunksDir ==
    /\ pc = "transcribe"
    /\ use_segmentation
    /\ steps' = Append(steps, "transcribe")
    /\ calls' = calls \cup {"split_and_transcribe_audio"}
    /\ IF chunks_dir
         THEN /\ pc' = "seg_split"
              /\ UNCHANGED <<ret, chunks_dir>>
         ELSE \/ /\ chunks_dir' = TRUE
                 /\ pc' = "seg_split"
                 /\ ret' = ret
              \/ /\ chunks_dir' = FALSE
                 /\ pc' = "done"
                 /\ ret' = "raised"
    /\ UNCHANGED <<video_exists, use_segmentation, audio_file, text_output_file,
                   chunk_files, segvars, transcribed_text, fs0, extracted,
                   written, cleanvars>>

\* lines 45-50: AudioSegment.from_file and split_on_silence.
SplitOnSilence ==
    /\ pc = "seg_split"
    /\ \/ /\ \E cs \in ChunkSeqs : chunks' = cs
          /\ pc' = "seg_model"
          /\ UNCHANGED <<seg_error, transcribed_text>>
       \/ /\ SegRaise("load_audio")
          /\ chunks' = chunks
    /\ UNCHANGED <<ret, video_exists, use_segmentation, fsvars, i, full_text,
                   exported, transcribed, del_failed, fs0, calls, extracted,
                   written, cleanvars, steps>>

\* lines 52-53: full_text = [] and whisper.load_model, once for all chunks.
LoadModel ==
    /\ pc = "seg_model"
    /\ full_text' = <<>>
    /\ i' = 0
    /\ \/ /\ pc' = "seg_loop"
          /\ UNCHANGED <<seg_error, transcribed_text>>
       \/ SegRaise("load_model")
    /\ UNCHANGED <<ret, video_exists, use_segmentation, fsvars, chunks,
                   exported, transcribed, del_failed, fs0, calls, extracted,
                   written, cleanvars, steps>>

\* OnChunkError with the exception caught inside the loop body: the chunk is
\* skipped and the loop goes on.
OnChunkErrorSkip(step) ==
    /\ seg_error' = step
    /\ i' = i + 1
    /\ pc' = "seg_loop"
    /\ UNCHANGED <<full_text, transcribed_text>>

\* What an exception in the body of the for loop (export, transcribe) does:
\* it reaches the handler of lines 75-77; the loop does not go on.
OnChunkError(step) ==
    /\ SegRaise(step)
    /\ UNCHANGED <<i, full_text>>

\* lines 56-58: the next chunk is written to chunk_<i>.wav. When export
\* raises the file may or may not have been created.
ExportChunk ==
    /\ pc = "seg_loop"
    /\ i < Len(chunks)
    /\ exported' = Append(exported, i)
    /\ \/ /\ chunk_files' = chunk_files \cup {i}
          /\ pc' = "seg_transcribe"
          /\ UNCHANGED <<i, full_text, seg_error, transcribed_text>>
       \/ /\ chunk_files' \in {chunk_files, chunk_files \cup {i}}
          /\ OnChunkError("export")
    /\ UNCHANGED <<ret, video_exists, use_segmentation, audio_file,
                   text_output_file, chunks_dir, chunks, transcribed,
                   del_failed, fs0, calls, extracted, written, cleanvars, steps>>

\* AppendText inserting at the front of the list.
PrependText(text) == <<text>> \o full_text

\* line 64: full_text.append(text).
AppendText(text) == Append(full_text, text)

\* lines 62-64: the chunk is transcribed and its text appended.
TranscribeChunk ==
    /\ pc = "seg_transcribe"
    /\ transcribed' = Append(transcribed, i)
    /\ \/ /\ full_text' = AppendText(chunks[i + 1])
          /\ pc' = "seg_remove"
          /\ UNCHANGED <<i, seg_error, transcribed_text>>
       \/ OnChunkError("transcribe")
    /\ UNCHANGED <<ret, video_exists, use_segmentation, fsvars, chunks,
                   exported, del_failed, fs0, calls, extracted, written,
                   cleanvars, steps>>

\* RemoveOk without the os.remove call.
RemoveSkipped ==
    /\ chunk_files' = chunk_files
    /\ del_failed' = del_failed
    /\ UNCHANGED <<seg_error, transcribed_text>>
    /\ i' = i + 1
    /\ pc' = "seg_loop"

\* lines 69-70: os.remove(chunk_filename) succeeds.
RemoveOk ==
    /\ chunk_files' = chunk_files \ {i}
    /\ del_failed' = del_failed
    /\ UNCHANGED <<seg_error, transcribed_text>>
    /\ i' = i + 1
    /\ pc' = "seg_loop"

\* OnRemoveError without the inner try: the exception reaches the handler of
\* lines 75-77.
OnRemoveErrorAbort ==
    /\ chunk_files' = chunk_files
    /\ del_failed' = del_failed \cup {i}
    /\ SegRaise("remove")
    /\ i' = i

\* lines 71-72: os.remove raised; the warning is printed, the file stays and
\* the loop goes on with the next chunk.
OnRemoveError ==
    /\ chunk_files' = chunk_files
    /\ del_failed' = del_failed \cup {i}
    /\ UNCHANGED <<seg_error, transcribed_text>>
    /\ i' = i + 1
    /\ pc' = "seg_loop"

\* lines 67-72: the chunk file is deleted right after its transcription.
RemoveChunk ==
    /\ pc = "seg_remove"
    /\ \/ RemoveOk
       \/ OnRemoveError
    /\ UNCHANGED <<ret, video_exists, use_segmentation, audio_file,
                   text_output_file, chunks_dir, chunks, full_text, exported,
                   transcribed, fs0, calls, extracted, written, cleanvars, steps>>

\* str.join: the items of s with sep between consecutive items.
RECURSIVE Join(_, _)
Join(sep, s) ==
    IF Len(s) = 0 THEN ""
    ELSE IF Len(s) = 1 THEN s[1]
    ELSE s[1] \o sep \o Join(sep, Tail(s))

\* line 56 when the chunks are exhausted, line 74: return " ".join(full_text).
JoinChunks ==
    /\ pc = "seg_loop"
    /\ i >= Len(chunks)
    /\ transcribed_text' = Some(Join(" ", full_text))
    /\ pc' = "save"
    /\ UNCHANGED <<ret, video_exists, use_segmentation, fsvars, segvars, fs0,
                   calls, extracted, written, cleanvars, steps>>

\* Truthy as `is not None`.
IsNotNone(t) == t /= None

\* line 131: `if transcribed_text:` -- None and "" are both false.
Truthy(t) == t /= None /\ t[1] /= ""

\* lines 131-145: the transcript is written to <name>.txt, or the function
\* returns False (no transcript, or the write raised; a failed write may
\* leave the file truncated, since open(..., "w") truncates).
SaveTranscript ==
    /\ pc = "save"
    /\ IF Truthy(transcribed_text)
         THEN /\ steps' = Append(steps, "write")
              /\ \/ /\ text_output_file' = File(transcribed_text[1])
                    /\ written' = TRUE
                    /\ pc' = "cleanup"
                    /\ ret' = ret
                 \/ /\ text_output_file' \in {text_output_file, File("")}
                    /\ written' = FALSE
                    /\ Return("False")
         ELSE /\ Return("False")
              /\ UNCHANGED <<text_output_file, written, steps>>
    /\ UNCHANGED <<video_exists, use_segmentation, audio_file, chunks_dir,
                   chunk_files, segvars, transcribed_text, fs0, calls,
                   extracted, cleanvars>>

\* lines 148-151 and 160-161: the temporary audio file is removed; an
\* exception leaves the try block, so lines 154-159 are not run.
CleanupAudio ==
    /\ pc = "cleanup"
    /\ steps' = Append(steps, "cleanup")
    /\ IF audio_file
         THEN /\ cleanup_attempts' = cleanup_attempts \cup {"audio"}
              /\ \/ /\ audio_file' = FALSE
                    /\ pc' = "cleanup_chunks"
                    /\ UNCHANGED <<ret, cleanup_error>>
                 \/ /\ audio_file' = TRUE
                    /\ cleanup_error' = TRUE
                    /\ Return("True")
         ELSE /\ pc' = "cleanup_chunks"
              /\ UNCHANGED <<ret, audio_file, cleanup_attempts, cleanup_error>>
    /\ UNCHANGED <<video_exists, use_segmentation, text_output_file, chunks_dir,
                   chunk_files, segvars, transcribed_text, fs0, calls,
                   extracted, written>>

\* lines 154-163: in segmented mode the chunk directory is removed with its
\* contents (a failing rmtree may have removed some of them); return True.
CleanupChunks ==
    /\ pc = "cleanup_chunks"
    /\ IF use_segmentation /\ chunks_dir
         THEN /\ cleanup_attempts' = cleanup_attempts \cup {"chunks"}
              /\ \/ /\ chunks_dir' = FALSE
                    /\ chunk_files' = {}
                    /\ cleanup_error' = cleanup_error
                 \/ /\ chunks_dir' = TRUE
                    /\ chunk_files' \in SUBSET chunk_files
                    /\ cleanup_error' = TRUE
         ELSE UNCHANGED <<chunks_dir, chunk_files, cleanup_attempts, cleanup_error>>
    /\ Return("True")
    /\ UNCHANGED <<video_exists, use_segmentation, audio_file, text_output_file,
                   segvars, transcribed_text, fs0, calls, extracted, written,
                   steps>>

Next ==
    \/ ValidateInput
    \/ ExtractAudio
    \/ DirectTranscribe
    \/ MakeChunksDir
    \/ SplitOnSilence
    \/ LoadModel
    \/ ExportChunk
    \/ TranscribeChunk
    \/ RemoveChunk
    \/ JoinChunks
    \/ SaveTranscript
    \/ CleanupAudio
    \/ CleanupChunks

Spec == Init /\ [][Next]_vars

----------------------------------------------------------------------------
(* Properties *)

\* process_video_to_text has returned True or False.
Returned == pc = "done" /\ ret \in {"True", "False"}

\* Control is inside the try block of split_and_transcribe_audio.
InSplit == pc \in {"seg_split", "seg_model", "seg_loop", "seg_transcribe", "seg_remove"}

\* split_and_transcribe_audio returned a string.
SplitCompleted == use_segmentation /\ transcribed_text /= None

\* t_0 + " " + t_1 + ... + t_{n-1}, built from the left.
RECURSIVE SpaceJoined(_, _)
SpaceJoined(ts, n) ==
    IF n = 0 THEN ""
    ELSE IF n = 1 THEN ts[1]
    ELSE SpaceJoined(ts, n - 1) \o " " \o ts[n]

\* <<0, 1, ..., n-1>>
UpTo(n) == [j \in 1..n |-> j - 1]

\* s is an initial part of t.
IsPrefix(s, t) == Len(s) <= Len(t) /\ SubSeq(t, 1, Len(s)) = s

\* C1: whenever the function returns after a successful extraction, the
\* temporary audio file does not exist.
C1_TempAudioRemoved ==
    (Returned /\ extracted) => ~audio_file

\* C2: whenever the function returns in segmented mode, the chunk directory
\* and every chunk file in it are gone.
C2_ChunkDirRemoved ==
    (Returned /\ "split_and_transcribe_audio" \in calls)
        => (~chunks_dir /\ chunk_files = {})

\* C3: when the video path does not exist, neither the extractor nor a
\* transcriber is ever invoked, the filesystem stays as it was, and the
\* function returns False.
C3_MissingVideoNoEffect ==
    ~video_exists =>
        /\ calls = {}
        /\ FileSystem = fs0
        /\ pc = "done" => ret = "False"

C3_Witness ==
    /\ ~video_exists
    /\ pc = "done"
    /\ ret = "False"
    /\ fs0.txt = NoFile
    /\ ~fs0.audio
    /\ ~fs0.dir

\* C4: when split_and_transcribe_audio completes without error, its result
\* is the per-chunk transcripts joined with one space in chunk order, every
\* chunk having been exported and transcribed exactly once, in order ("" for
\* no chunks).
C4_SpaceJoinedInOrder ==
    SplitCompleted =>
        /\ transcribed_text = Some(SpaceJoined(chunks, Len(chunks)))
        /\ exported = UpTo(Len(chunks))
        /\ transcribed = UpTo(Len(chunks))

C4_Witness ==
    /\ SplitCompleted
    /\ chunks = <<"a", "b">>
    /\ transcribed_text = Some("a b")
    /\ ret = "True"
    /\ text_output_file = File("a b")

\* C5 as stated: during split_and_transcribe_audio at most one of the chunk
\* files the call has written exists, and between two iterations no file of
\* an already transcribed chunk is on disk.
C5_AtMostOneChunkFile ==
    InSplit =>
        /\ Cardinality({j \in chunk_files : \E n \in 1..Len(exported) : exported[n] = j}) <= 1
        /\ pc = "seg_loop" => \A j \in chunk_files : j >= i

\* C5 amended: during split_and_transcribe_audio every chunk file in the
\* directory is the chunk being processed, a chunk whose deletion failed, or
\* a file that was there before the call and whose index has not been passed.
C5_ChunkFilesAccountedFor ==
    InSplit =>
        \A j \in chunk_files :
            \/ j = i /\ pc \in {"seg_transcribe", "seg_remove"}
            \/ j \in del_failed
            \/ j \in fs0.files /\ j >= i

C5_Witness ==
    /\ pc = "seg_transcribe"
    /\ i = 1
    /\ chunk_files = {1}
    /\ del_failed = {}
    /\ 0 \in fs0.files

\* C6: when the export or transcription of chunk k raises, the result is
\* None, chunk k is the last one exported or transcribed, the texts of the
\* chunks before it are not written anywhere, and the run returns False.
C6_ChunkErrorAborts ==
    seg_error \in {"export", "transcribe"} =>
        /\ transcribed_text = None
        /\ pc \in {"save", "done"}
        /\ exported = UpTo(i + 1)
        /\ transcribed = UpTo(IF seg_error = "export" THEN i ELSE i + 1)
        /\ Len(full_text) = i
        /\ ~written
        /\ text_output_file = fs0.txt
        /\ pc = "done" => ret = "False"

C6_Witness ==
    /\ seg_error = "transcribe"
    /\ i = 1
    /\ Len(chunks) > 1
    /\ full_text = <<"a">>
    /\ pc = "done"
    /\ ret = "False"

\* C7: a failed deletion of chunk k's file does not stop the loop: the loop
\* has moved past k keeping k's text, and when the function completes every
\* chunk was exported and the result is the same space-joined transcript.
C7_RemoveErrorContinues ==
    del_failed /= {} =>
        /\ seg_error /= "remove"
        /\ \A k \in del_failed : k < i /\ k < Len(full_text)
        /\ pc = "seg_loop" => Len(full_text) = i
        /\ SplitCompleted =>
              /\ Len(exported) = Len(chunks)
              /\ Len(full_text) = Len(chunks)
              /\ transcribed_text = Some(SpaceJoined(chunks, Len(chunks)))

C7_Witness ==
    /\ del_failed = {0}
    /\ chunks = <<"a", "b">>
    /\ pc = "done"
    /\ ret = "True"
    /\ text_output_file = File("a b")

\* C8: the steps run in the order validate, extract, transcribe, write,
\* cleanup, none twice; the output file is written only after extraction and
\* transcription succeeded; True is returned only with the full transcript
\* written; a run that ends without having written the output returns False.
C8_LinearAllOrNothing ==
    /\ IsPrefix(steps, <<"validate", "extract", "transcribe", "write", "cleanup">>)
    /\ written => extracted /\ Truthy(transcribed_text)
    /\ ret = "True" => written /\ text_output_file = File(transcribed_text[1])
    /\ (pc = "done" /\ ~written) => ret = "False"

\* C9: in segmented mode, once the output was written, the cleanup step
\* attempts to remove both the temporary audio file and the chunk directory,
\* and the run returns True whatever the removals do.
C9_CleanupAttemptsBoth ==
    (pc = "done" /\ written /\ use_segmentation) =>
        /\ ret = "True"
        /\ cleanup_attempts = {"audio", "chunks"}

\* C10: an empty transcript is treated as None: nothing is written and False
\* is returned, so True implies that <name>.txt holds a non-empty transcript.
C10_EmptyTranscriptIsFailure ==
    /\ (pc = "done" /\ transcribed_text = Some("")) =>
          /\ ret = "False"
          /\ ~written
          /\ text_output_file = fs0.txt
    /\ ret = "True" =>
          /\ text_output_file = transcribed_text
          /\ text_output_file /= NoFile
          /\ text_output_file /= File("")

C10_Witness ==
    /\ pc = "done"
    /\ use_segmentation
    /\ seg_error = "none"
    /\ chunks = <<>>
    /\ transcribed_text = Some("")
    /\ ret = "False"
    /\ text_output_file = File(OldTranscript)
====
